---------------------------- MODULE Spec2Model ----------------------------
(***************************************************************************)
(* Model of sslkeylog.c: an LD_PRELOAD interposer that hooks SSL_new,      *)
(* SSL_connect, SSL_do_handshake and SSL_accept of OpenSSL and writes the  *)
(* negotiated secrets to the file named by SSLKEYLOGFILE.                  *)
(*                                                                         *)
(* The process runs one or two application threads.  Every access to a    *)
(* process-wide object (the once flag, the table of resolved entry points, *)
(* KeyLogFile_fd, the log file) is one step of its own; work on a thread's *)
(* locals and on the SSL object the thread is using is folded into the     *)
(* neighbouring step.  The OpenSSL library is the environment: its calls   *)
(* pick their results from small sets.                                     *)
(***************************************************************************)
EXTENDS Integers, Sequences, FiniteSets, TLC

\* ------------------------------------------------------------------ bounds
\* The number of calls of intercepted operations the application makes.
MaxCalls == 3

\* The application's threads.  Each thread runs its own connection: thread t
\* hands SSL object t to the handshake operations, and SSL object s belongs
\* to SSL_CTX s.
Threads == {1, 2}
Sessions == Threads

\* --------------------------------------------------------------- constants
NULL == 0
SSL3_RANDOM_SIZE == 32
SSL_MAX_MASTER_KEY_LENGTH == 48
NUL == "NUL"
CLIENT_RANDOM == <<"C", "L", "I", "E", "N", "T", "_", "R", "A", "N", "D", "O", "M", " ">>
CLIENT_RANDOM_LEN == Len(CLIENT_RANDOM)
\* A line buffer without the two bytes for the newline and the NUL.
CLIENT_RANDOM_LINE_LENGTH_NoTerminator ==
    CLIENT_RANDOM_LEN + (SSL3_RANDOM_SIZE * 2) + 1 + (SSL_MAX_MASTER_KEY_LENGTH * 2)
CLIENT_RANDOM_LINE_LENGTH ==
    CLIENT_RANDOM_LEN + (SSL3_RANDOM_SIZE * 2) + 1 + (SSL_MAX_MASTER_KEY_LENGTH * 2) + 2

\* The descriptor number open() hands out for the log file.
LogFd == 3

Min(a, b) == IF a < b THEN a ELSE b
Max(a, b) == IF a < b THEN b ELSE a

\* The entry points init_openssl_hooks resolves, in the order it resolves them.
InitOrder ==
    << "SSL_new", "SSL_connect", "SSL_do_handshake", "SSL_accept",
       "SSL_get_client_random", "SSL_SESSION_get_master_key", "SSL_get_session",
       "SSL_CTX_set_keylog_callback" >>
Symbols == {InitOrder[i] : i \in 1..Len(InitOrder)}
Optional == "SSL_CTX_set_keylog_callback"
Mandatory == Symbols \ {Optional}
HandshakeOps == {"SSL_connect", "SSL_do_handshake", "SSL_accept"}

\* ------------------------------------------------- the library's secrets
\* What the library may hold as a session's master key: none, the 48 bytes
\* a0..cf, their first 32 bytes, and 48 zero bytes.
K48 == [i \in 1..48 |-> 159 + i]
K32 == [i \in 1..32 |-> 159 + i]
KZero == [i \in 1..48 |-> 0]
\* What the library may hold as the client random: none, or the 32 bytes 00..1f.
R32 == [i \in 1..32 |-> i - 1]

\* The runs explored are those of two kinds of application: "single" has one
\* thread, and its library may leave any of the keys above, no client random
\* or R32, and return -1, 0 or 1; "threaded" has all the threads, and its
\* library leaves no key or K48, the client random R32, and returns 0 or 1.
Worlds == {"single", "threaded"}
WorldThreads(w) == IF w = "single" THEN {1} ELSE Threads
KeyPool(w) == IF w = "single" THEN {<< >>, K48, K32, KZero} ELSE {<< >>, K48}
RandPool(w) == IF w = "single" THEN {<< >>, R32} ELSE {R32}
Rets(w) == IF w = "single" THEN {-1, 0, 1} ELSE {0, 1}

\* ---------------------------------------------------------- byte helpers
ZeroBuf(n) == [i \in 1..n |-> 0]

\* size_t SSL_SESSION_get_master_key(session, out, outlen) and
\* size_t SSL_get_client_random(ssl, out, outlen): copy at most outlen bytes
\* of the secret into out and return the number copied.
LibCopyOut(secret, out, outlen) ==
    LET n == Min(outlen, Len(secret))
    IN  [value |-> [i \in 1..Len(out) |-> IF i <= n THEN secret[i] ELSE out[i]],
         length |-> n]

\* SslMasterKey x = { 0 }; x.length = _SSL_SESSION_get_master_key(
\*     _SSL_get_session(ssl), x.value, SSL_MAX_MASTER_KEY_LENGTH);
SnapshotMasterKey(s) ==
    LibCopyOut(s.master_key, ZeroBuf(SSL_MAX_MASTER_KEY_LENGTH), SSL_MAX_MASTER_KEY_LENGTH)

\* SslClientRandom crandom = { 0 };
\* crandom.length = _SSL_get_client_random(ssl, crandom.value, SSL3_RANDOM_SIZE);
SnapshotClientRandom(s) ==
    LibCopyOut(s.client_random, ZeroBuf(SSL3_RANDOM_SIZE), SSL3_RANDOM_SIZE)

SslMasterKeyZero == [value |-> ZeroBuf(SSL_MAX_MASTER_KEY_LENGTH), length |-> 0]
SslClientRandomZero == [value |-> ZeroBuf(SSL3_RANDOM_SIZE), length |-> 0]

\* memcmp(a, b, n): 0 when the first n bytes agree, else the difference of
\* the first pair that differs.
memcmp(a, b, n) ==
    IF \A i \in 1..n : a[i] = b[i]
    THEN 0
    ELSE LET k == CHOOSE i \in 1..n : a[i] # b[i] /\ \A j \in 1..(i - 1) : a[j] = b[j]
         IN  a[k] - b[k]

\* logging_key's test without the comparison with before_key: every
\* available master key counts as changed.
KeyChanged_NoCompare(before_key, after_key) == after_key.length > 0

\* logging_key's test comparing the two snapshots as wholes, lengths included.
KeyChanged_WholeSnapshot(before_key, after_key) ==
    after_key.length > 0 /\ after_key # before_key

\* The test of logging_key: (after_key.length > 0) && memcmp(...) != 0.
KeyChanged(before_key, after_key) ==
    (after_key.length > 0)
    /\ memcmp(after_key.value, before_key.value, after_key.length) # 0

\* ------------------------------------------------------------- formatting
HexDigits == << "0", "1", "2", "3", "4", "5", "6", "7",
                "8", "9", "a", "b", "c", "d", "e", "f" >>

\* sprintf(buf, "%02X", b): upper-case digits.
sprintf_02X(b) ==
    << << "0", "1", "2", "3", "4", "5", "6", "7", "8", "9",
          "A", "B", "C", "D", "E", "F" >>[(b \div 16) + 1],
       << "0", "1", "2", "3", "4", "5", "6", "7", "8", "9",
          "A", "B", "C", "D", "E", "F" >>[(b % 16) + 1],
       NUL >>

\* sprintf(p, "%02x", byte): two lowercase hex digits and the terminating NUL.
sprintf_02x(b) == << HexDigits[(b \div 16) + 1], HexDigits[(b % 16) + 1], NUL >>

\* unsigned char line[CLIENT_RANDOM_LINE_LENGTH] = { 0 }; char *p = line;
\* hi is the highest offset stored to so far.
LineInit == [buf |-> [i \in 1..CLIENT_RANDOM_LINE_LENGTH |-> NUL], p |-> 0, hi |-> 0]

\* Store the bytes of seq at p (p is not moved).  A store past the end of the
\* buffer is recorded in hi and leaves the buffer's own bytes alone.
Store(st, seq) ==
    LET n == Len(st.buf)
        a == Min(st.p, n)
        w == Min(Len(seq), n - a)
    IN  [buf |-> SubSeq(st.buf, 1, a) \o SubSeq(seq, 1, w) \o SubSeq(st.buf, a + w + 1, n),
         p |-> st.p,
         hi |-> Max(st.hi, st.p + Len(seq))]

Advance(st, n) == [st EXCEPT !.p = @ + n]

\* for (i = 0; i < length; i++) { sprintf(p, "%02x", value[i]); p += 2; }
\* Iteration i stores the three bytes of sprintf at p + 2i, so that each NUL
\* but the last is overwritten by the next iteration: after the loop the
\* bytes at p + 2i and p + 2i + 1 are those of value[i], the byte at
\* p + 2 * length is NUL, and p has moved by 2 * length.
HexLoop(st, value, length) ==
    IF length = 0
    THEN st
    ELSE LET pairs == [j \in 1..(2 * length) |->
                          sprintf_02x(value[(j + 1) \div 2])[2 - (j % 2)]]
             last  == sprintf_02x(value[length])[3]
         IN  Advance(Store(st, pairs \o << last >>), 2 * length)

\* The body of KeyLogFile_raw_dump up to the write: the buffer, p and hi.
FormatLine(client_random, master_key) ==
    LET s1 == Advance(Store(LineInit, CLIENT_RANDOM), CLIENT_RANDOM_LEN)
        s2 == HexLoop(s1, client_random.value, client_random.length)
        s3 == Advance(Store(s2, << " " >>), 1)
        s4 == HexLoop(s3, master_key.value, master_key.length)
        s5 == Advance(Store(s4, << "\n" >>), 1)
    IN  s5

\* What raw_dump hands to write: line[0 .. len-1] with len = p - line.
RawDumpBytes(client_random, master_key) ==
    LET st == FormatLine(client_random, master_key)
    IN  SubSeq(st.buf, 1, st.p)

\* A guard of KeyLogFile_raw_dump that tests the master key only.
RawDumpGuard_KeyOnly(client_random, master_key) == master_key.length # 0

\* The guard of KeyLogFile_raw_dump.
RawDumpGuard(client_random, master_key) ==
    client_random.length # 0 /\ master_key.length # 0

\* The line the library hands to the key-log callback for a TLS <= 1.2
\* secret: "CLIENT_RANDOM <hex> <hex>", no newline.
HexOf(bytes) ==
    [j \in 1..(2 * Len(bytes)) |->
        LET b == bytes[(j + 1) \div 2]
        IN  IF j % 2 = 1 THEN HexDigits[(b \div 16) + 1] ELSE HexDigits[(b % 16) + 1]]
LibKeylogLine(s) ==
    CLIENT_RANDOM \o HexOf(s.client_random) \o << " " >> \o HexOf(s.master_key)

\* ------------------------------------------------------------------ state
VARIABLES
    world,          \* the kind of application and library, see Worlds
    proc,           \* "running", "exiting" (exit() was called), "aborted"
                    \* (abort()), "segv" (a call through NULL, dlclose(NULL))
    once,           \* openssl_init_flag: "ONCE_FLAG_INIT", "running", "done"
    initPos,        \* position inside init_openssl_hooks: 0 outside, 1..8 the
                    \* entry point being loaded, 9 at KeyLogFile_init
    initBy,         \* the threads that have entered init_openssl_hooks, in order
    table,          \* _SSL_new .. _SSL_CTX_set_keylog_callback: NULL or resolved
    KeyLogFile_fd,  \* static int KeyLogFile_fd
    SSLKEYLOGFILE,  \* the environment: "unset", "unwritable" (open fails), "ok"
    fdOpen,         \* whether descriptor LogFd is open in the kernel
    fileCreated,    \* whether the log file exists
    file,           \* the log file: the chunks appended, one per write call
    atexitReg,      \* number of atexit(KeyLogFile_finalize) registrations
    atexitRun,      \* number of them already run by exit()
    nOpen,          \* number of open() calls
    nClose,         \* number of close() calls
    staleWrites,    \* number of write() calls issued on the closed descriptor
    keylog_cb,      \* per SSL_CTX: whether KeyLogFile_callback is registered
    sess,           \* per SSL object: the library's master key and client random
    th,             \* per thread: position, locals, and the library calls made
    calls           \* number of application calls so far

writer == << KeyLogFile_fd, fdOpen, fileCreated, atexitReg, nOpen >>
vars == << world, proc, once, initPos, initBy, table, KeyLogFile_fd, SSLKEYLOGFILE, fdOpen,
           fileCreated, file, atexitReg, atexitRun, nOpen, nClose, staleWrites,
           keylog_cb, sess, th, calls >>

\* A thread that is not inside an intercepted operation.  Of a thread that is:
\* pc its position, op and arg the operation and its argument, path the
\* branch a handshake operation took, before_key and ret the locals of that
\* name, written the result of raw_dump's write; and what the operation has
\* done so far: realCalls, realArg, realRet the calls of the real entry point,
\* nMk and nCr the reads of the master key and of the client random, nReg the
\* callback registrations, nWrite the write calls, appended those that landed.
Idle ==
    [pc |-> "idle", op |-> "none", arg |-> 0, path |-> "none",
     before_key |-> SslMasterKeyZero, ret |-> 0, written |-> 0,
     realCalls |-> 0, realArg |-> 0, realRet |-> 0,
     nMk |-> 0, nCr |-> 0, nReg |-> 0, nWrite |-> 0, appended |-> 0]

Init ==
    /\ world \in Worlds
    /\ proc = "running"
    /\ once = "ONCE_FLAG_INIT"
    /\ initPos = 0
    /\ initBy = << >>
    /\ table = [s \in Symbols |-> NULL]
    /\ KeyLogFile_fd = -1
    /\ SSLKEYLOGFILE \in {"unset", "unwritable", "ok"}
    /\ fdOpen = FALSE
    /\ fileCreated = FALSE
    /\ file = << >>
    /\ atexitReg = 0
    /\ atexitRun = 0
    /\ nOpen = 0
    /\ nClose = 0
    /\ staleWrites = 0
    /\ keylog_cb = [c \in Sessions |-> FALSE]
    /\ sess = [s \in Sessions |-> [master_key |-> << >>, client_random |-> << >>]]
    /\ th = [t \in Threads |-> Idle]
    /\ calls = 0

Alive == proc \in {"running", "exiting"}

\* ------------------------------------------------------- the log writer
\* A KeyLogFile_init that opens a default file when SSLKEYLOGFILE is unset.
KeyLogFile_init_DefaultPath ==
    IF KeyLogFile_fd >= 0
    THEN UNCHANGED writer
    ELSE /\ nOpen' = nOpen + 1
         /\ KeyLogFile_fd' = IF SSLKEYLOGFILE = "unwritable" THEN -1 ELSE LogFd
         /\ fdOpen' = (fdOpen \/ SSLKEYLOGFILE # "unwritable")
         /\ fileCreated' = (fileCreated \/ SSLKEYLOGFILE # "unwritable")
         /\ atexitReg' = atexitReg + 1

\* KeyLogFile_init: nothing when the descriptor is set or the variable is
\* unset; else open(name, O_WRONLY | O_APPEND | O_CREAT, 0644) and atexit.
KeyLogFile_init ==
    IF KeyLogFile_fd >= 0 \/ SSLKEYLOGFILE = "unset"
    THEN UNCHANGED writer
    ELSE /\ nOpen' = nOpen + 1
         /\ KeyLogFile_fd' = IF SSLKEYLOGFILE = "ok" THEN LogFd ELSE -1
         /\ fdOpen' = (fdOpen \/ SSLKEYLOGFILE = "ok")
         /\ fileCreated' = (fileCreated \/ SSLKEYLOGFILE = "ok")
         /\ atexitReg' = atexitReg + 1

\* A KeyLogFile_finalize that leaves the descriptor open.
KeyLogFile_finalize_NoClose == UNCHANGED << fdOpen, nClose >>

\* KeyLogFile_finalize: close the descriptor when it is set.
KeyLogFile_finalize ==
    IF KeyLogFile_fd >= 0
    THEN /\ fdOpen' = FALSE
         /\ nClose' = nClose + 1
    ELSE UNCHANGED << fdOpen, nClose >>

\* write(fd, data, len) on the O_APPEND descriptor: the kernel appends all of
\* data in one piece, or (accepts = FALSE, or a bad descriptor) nothing.
WriteLands(fd, accepts) == fd = LogFd /\ fdOpen /\ accepts
SysWrite(t, fd, data, via, accepts) ==
    /\ file' = IF WriteLands(fd, accepts)
               THEN Append(file, [by |-> t, via |-> via, data |-> data])
               ELSE file
    /\ staleWrites' = IF fd = LogFd /\ ~fdOpen THEN staleWrites + 1 ELSE staleWrites
WriteResult(fd, data, accepts) == IF WriteLands(fd, accepts) THEN Len(data) ELSE -1

\* ------------------------------------------------------ symbol resolution
\* How one load_function call can go: found by dlsym(RTLD_NEXT); found in
\* the dlopen'ed libssl.so; libssl.so opened and the symbol not in it;
\* libssl.so not opened, so that dlclose is handed NULL, which returns an
\* error on some C libraries and faults on others.
LoadOutcomes == {"next", "lib", "nosym", "nolib", "nolib_fault"}

\* load_function: the pointer found, or NULL.
load_function(outcome) == IF outcome \in {"next", "lib"} THEN 1 ELSE NULL

\* load_function_or_die: abort() on NULL.
load_function_or_die(outcome) ==
    [func |-> load_function(outcome), abort |-> load_function(outcome) = NULL]

\* ---------------------------------------------------------------- SSL_new
\* A call_once that lets a caller through as soon as some thread has entered
\* the function.
OncePassable_Entered == once # "ONCE_FLAG_INIT"

\* Whether call_once lets a caller through without running the function.
OncePassable == once = "done"

\* call_once(&openssl_init_flag, init_openssl_hooks): the first caller runs
\* the function, a caller arriving while it runs waits, a later caller passes.
call_once(t, r) ==
    IF once = "ONCE_FLAG_INIT"
    THEN /\ once' = "running"
         /\ initPos' = 1
         /\ initBy' = Append(initBy, t)
         /\ th' = [th EXCEPT ![t] = [r EXCEPT !.pc = "init"]]
    ELSE /\ th' = [th EXCEPT ![t] =
                     [r EXCEPT !.pc = IF OncePassable THEN "new_reg" ELSE "call_once"]]
         /\ UNCHANGED << world, once, initPos, initBy >>

\* The application calls SSL_new(ctx), whose first statement is call_once.
Call_SSL_new(t, ctx) ==
    /\ proc = "running"
    /\ th[t].pc = "idle"
    /\ calls < MaxCalls
    /\ calls' = calls + 1
    /\ call_once(t, [Idle EXCEPT !.op = "SSL_new", !.arg = ctx])
    /\ UNCHANGED << world, proc, table, KeyLogFile_fd, SSLKEYLOGFILE, fdOpen, fileCreated,
                    file, atexitReg, atexitRun, nOpen, nClose, staleWrites, keylog_cb,
                    sess >>

\* A thread waiting in call_once goes on once the function has returned.
OnceWait(t) ==
    /\ Alive
    /\ th[t].pc = "call_once"
    /\ OncePassable
    /\ th' = [th EXCEPT ![t].pc = "new_reg"]
    /\ UNCHANGED << world, proc, once, initPos, initBy, table, KeyLogFile_fd, SSLKEYLOGFILE,
                    fdOpen, fileCreated, file, atexitReg, atexitRun, nOpen, nClose,
                    staleWrites, keylog_cb, sess, calls >>

\* init_openssl_hooks, one entry point per step: the seven mandatory ones by
\* load_function_or_die, then the optional one by load_function.
InitLoad(t) ==
    /\ Alive
    /\ th[t].pc = "init"
    /\ initPos \in 1..Len(InitOrder)
    /\ \E outcome \in LoadOutcomes :
         LET sym == InitOrder[initPos]
             r   == IF sym \in Mandatory
                    THEN load_function_or_die(outcome)
                    ELSE [func |-> load_function(outcome), abort |-> FALSE]
         IN  IF outcome = "nolib_fault"
             THEN /\ proc' = "segv"
                  /\ UNCHANGED << table, initPos >>
             ELSE IF r.abort
             THEN /\ proc' = "aborted"
                  /\ UNCHANGED << table, initPos >>
             ELSE /\ table' = [table EXCEPT ![sym] = r.func]
                  /\ initPos' = initPos + 1
                  /\ UNCHANGED proc
    /\ UNCHANGED << world, once, initBy, KeyLogFile_fd, SSLKEYLOGFILE, fdOpen, fileCreated,
                    file, atexitReg, atexitRun, nOpen, nClose, staleWrites, keylog_cb,
                    sess, th, calls >>

\* The last statement of init_openssl_hooks, KeyLogFile_init(), and the
\* return from call_once.
InitKeyLog(t) ==
    /\ Alive
    /\ th[t].pc = "init"
    /\ initPos = Len(InitOrder) + 1
    /\ KeyLogFile_init
    /\ initPos' = 0
    /\ once' = "done"
    /\ th' = [th EXCEPT ![t].pc = "new_reg"]
    /\ UNCHANGED << world, proc, initBy, table, SSLKEYLOGFILE, file, atexitRun, nClose,
                    staleWrites, keylog_cb, sess, calls >>

\* An SSL_new that registers the callback only while no context has one.
RegistersCallback_FirstOnly ==
    table[Optional] # NULL /\ \A c \in Sessions : ~keylog_cb[c]

\* The test of SSL_new: if (_SSL_CTX_set_keylog_callback != NULL).
RegistersCallback == table[Optional] # NULL

\* An SSL_new that, finding _SSL_CTX_set_keylog_callback NULL, loads it again
\* and finds it.
SSL_new_register_Reload(t) ==
    /\ Alive
    /\ th[t].pc = "new_reg"
    /\ IF RegistersCallback
       THEN /\ keylog_cb' = [keylog_cb EXCEPT ![th[t].arg] = TRUE]
            /\ th' = [th EXCEPT ![t].pc = "new_real", ![t].nReg = @ + 1]
            /\ UNCHANGED table
       ELSE /\ table' = [table EXCEPT ![Optional] = load_function("next")]
            /\ th' = [th EXCEPT ![t].pc = "new_real"]
            /\ UNCHANGED keylog_cb
    /\ UNCHANGED << world, proc, once, initPos, initBy, KeyLogFile_fd, SSLKEYLOGFILE,
                    fdOpen, fileCreated, file, atexitReg, atexitRun, nOpen, nClose,
                    staleWrites, sess, calls >>

\* if (_SSL_CTX_set_keylog_callback != NULL)
\*     _SSL_CTX_set_keylog_callback(ctx, KeyLogFile_callback);
SSL_new_register(t) ==
    /\ Alive
    /\ th[t].pc = "new_reg"
    /\ IF RegistersCallback
       THEN /\ keylog_cb' = [keylog_cb EXCEPT ![th[t].arg] = TRUE]
            /\ th' = [th EXCEPT ![t].pc = "new_real", ![t].nReg = @ + 1]
       ELSE /\ th' = [th EXCEPT ![t].pc = "new_real"]
            /\ UNCHANGED keylog_cb
    /\ UNCHANGED << world, proc, once, initPos, initBy, table, KeyLogFile_fd, SSLKEYLOGFILE,
                    fdOpen, fileCreated, file, atexitReg, atexitRun, nOpen, nClose,
                    staleWrites, sess, calls >>

\* return _SSL_new(ctx): the library returns a new SSL object of ctx, or NULL.
SSL_new_real(t) ==
    /\ Alive
    /\ th[t].pc = "new_real"
    /\ IF table["SSL_new"] = NULL
       THEN /\ proc' = "segv"
            /\ UNCHANGED th
       ELSE /\ \E r \in {NULL, th[t].arg} :
                 th' = [th EXCEPT ![t].pc = "ret", ![t].realCalls = @ + 1,
                                  ![t].realArg = th[t].arg, ![t].realRet = r,
                                  ![t].ret = r]
            /\ UNCHANGED proc
    /\ UNCHANGED << world, once, initPos, initBy, table, KeyLogFile_fd, SSLKEYLOGFILE,
                    fdOpen, fileCreated, file, atexitReg, atexitRun, nOpen, nClose,
                    staleWrites, keylog_cb, sess, calls >>

\* ------------------------------------------- SSL_connect / _do_handshake / _accept
\* SSL_connect and SSL_do_handshake without the test of
\* _SSL_CTX_set_keylog_callback.
TakesHookPath_Always(o) == o \in HandshakeOps

\* SSL_connect and SSL_do_handshake return the real call at once when
\* _SSL_CTX_set_keylog_callback != NULL; SSL_accept has no such test.
TakesHookPath(o) == o = "SSL_accept" \/ table[Optional] = NULL

\* The application calls a handshake operation on an SSL object no other
\* thread is using; the operation's first statement reads the table.
Call_Handshake(t, o, ssl) ==
    /\ proc = "running"
    /\ th[t].pc = "idle"
    /\ calls < MaxCalls
    /\ ssl = t
    /\ calls' = calls + 1
    /\ th' = [th EXCEPT ![t] =
                [Idle EXCEPT !.op = o, !.arg = ssl,
                             !.path = IF TakesHookPath(o) THEN "hook" ELSE "direct",
                             !.pc = IF TakesHookPath(o) THEN "before" ELSE "real"]]
    /\ UNCHANGED << world, proc, once, initPos, initBy, table, KeyLogFile_fd, SSLKEYLOGFILE,
                    fdOpen, fileCreated, file, atexitReg, atexitRun, nOpen, nClose,
                    staleWrites, keylog_cb, sess >>

\* SslMasterKey before_key = { 0 };
\* before_key.length = _SSL_SESSION_get_master_key(_SSL_get_session(ssl), ...);
\* a call through an entry that is still NULL faults.
HsBefore(t) ==
    /\ Alive
    /\ th[t].pc = "before"
    /\ IF table["SSL_get_session"] = NULL \/ table["SSL_SESSION_get_master_key"] = NULL
       THEN /\ proc' = "segv"
            /\ UNCHANGED th
       ELSE /\ th' = [th EXCEPT ![t].before_key = SnapshotMasterKey(sess[th[t].arg]),
                                ![t].nMk = @ + 1,
                                ![t].pc = "real"]
            /\ UNCHANGED proc
    /\ UNCHANGED << world, once, initPos, initBy, table, KeyLogFile_fd, SSLKEYLOGFILE,
                    fdOpen, fileCreated, file, atexitReg, atexitRun, nOpen, nClose,
                    staleWrites, keylog_cb, sess, calls >>

\* A wrapper that goes on to logging_key for every non-negative value.
LogsOnReturn_NonNegative(ret) == ret >= 0

\* if (ret == 1) logging_key(ssl, &before_key);
LogsOnReturn(ret) == ret = 1

\* A wrapper that returns 0 for every negative value of the real call.
WrapperReturn_Clamped(ret) == IF ret < 0 THEN 0 ELSE ret

\* return ret;
WrapperReturn(ret) == ret

\* The thread is back from the real call: the direct path returns its value,
\* the hook path goes on to logging_key when the value is 1.
BackInWrapper(r) ==
    [r EXCEPT !.ret = WrapperReturn(r.realRet),
              !.pc = IF r.path = "hook" /\ LogsOnReturn(r.realRet)
                     THEN "logging_key" ELSE "ret"]

\* Whether the library, having run a handshake that left key k and client
\* random c in an SSL object whose key was old, calls the key-log callback of
\* the object's context: it does for a newly derived secret.
LibLogsSecret(ssl, old, k, c) ==
    keylog_cb[ssl] /\ k # << >> /\ k # old /\ c # << >>

\* ret = _SSL_connect(ssl) (or _SSL_do_handshake, _SSL_accept): the library
\* runs the handshake, which leaves some master key and client random in the
\* SSL object and returns some value.
HsReal(t) ==
    /\ Alive
    /\ th[t].pc = "real"
    /\ IF table[th[t].op] = NULL
       THEN /\ proc' = "segv"
            /\ UNCHANGED << th, sess >>
       ELSE /\ \E r \in Rets(world), k \in KeyPool(world), c \in RandPool(world) :
                 LET ssl  == th[t].arg
                     made == [th[t] EXCEPT !.realCalls = @ + 1, !.realArg = ssl,
                                           !.realRet = r]
                 IN  /\ sess' = [sess EXCEPT ![ssl] =
                                    [master_key |-> k, client_random |-> c]]
                     /\ th' = [th EXCEPT ![t] =
                                 IF LibLogsSecret(ssl, sess[ssl].master_key, k, c)
                                 THEN [made EXCEPT !.pc = "callback"]
                                 ELSE BackInWrapper(made)]
            /\ UNCHANGED proc
    /\ UNCHANGED << world, once, initPos, initBy, table, KeyLogFile_fd, SSLKEYLOGFILE,
                    fdOpen, fileCreated, file, atexitReg, atexitRun, nOpen, nClose,
                    staleWrites, keylog_cb, calls >>

\* r after a write call that landed or did not.
Wrote(r, lands) ==
    [r EXCEPT !.nWrite = @ + 1, !.appended = IF lands THEN @ + 1 ELSE @]

\* KeyLogFile_callback(ssl, line), called by the library inside the real
\* call: if (KeyLogFile_fd >= 0) write(KeyLogFile_fd, line, strlen(line)); ...
KeyLogFile_callback(t) ==
    /\ Alive
    /\ th[t].pc = "callback"
    /\ IF KeyLogFile_fd >= 0
       THEN \E accepts \in BOOLEAN :
              /\ SysWrite(t, KeyLogFile_fd, LibKeylogLine(sess[th[t].arg]), "callback",
                          accepts)
              /\ th' = [th EXCEPT ![t] =
                          [Wrote(th[t], WriteLands(KeyLogFile_fd, accepts))
                              EXCEPT !.pc = "callback_nl"]]
       ELSE /\ th' = [th EXCEPT ![t] = BackInWrapper(th[t])]
            /\ UNCHANGED << file, staleWrites >>
    /\ UNCHANGED << world, proc, once, initPos, initBy, table, KeyLogFile_fd, SSLKEYLOGFILE,
                    fdOpen, fileCreated, atexitReg, atexitRun, nOpen, nClose,
                    keylog_cb, sess, calls >>

\* ... write(KeyLogFile_fd, "\n", strlen("\n")); and the library goes on
\* to return from the real call.
KeyLogFile_callback_nl(t) ==
    /\ Alive
    /\ th[t].pc = "callback_nl"
    /\ \E accepts \in BOOLEAN :
         /\ SysWrite(t, KeyLogFile_fd, << "\n" >>, "callback", accepts)
         /\ th' = [th EXCEPT ![t] =
                     BackInWrapper(Wrote(th[t], WriteLands(KeyLogFile_fd, accepts)))]
    /\ UNCHANGED << world, proc, once, initPos, initBy, table, KeyLogFile_fd, SSLKEYLOGFILE,
                    fdOpen, fileCreated, atexitReg, atexitRun, nOpen, nClose,
                    keylog_cb, sess, calls >>

\* KeyLogFile_raw_dump(client_random, master_key) by thread t, whose record
\* is r: when both lengths are non-zero, format the line and hand it to one
\* write call.
KeyLogFile_raw_dump(t, r, client_random, master_key) ==
    IF RawDumpGuard(client_random, master_key)
    THEN \E accepts \in BOOLEAN :
           LET line == RawDumpBytes(client_random, master_key)
           IN  /\ SysWrite(t, KeyLogFile_fd, line, "raw_dump", accepts)
               /\ th' = [th EXCEPT ![t] =
                           [Wrote(r, WriteLands(KeyLogFile_fd, accepts))
                               EXCEPT !.written =
                                          WriteResult(KeyLogFile_fd, line, accepts)]]
    ELSE /\ th' = [th EXCEPT ![t] = r]
         /\ UNCHANGED << file, staleWrites >>

\* logging_key: the after-snapshot, the comparison and, when the key has
\* changed, the read of the client random and KeyLogFile_raw_dump.
logging_key(t) ==
    /\ Alive
    /\ th[t].pc = "logging_key"
    /\ LET ssl       == th[t].arg
           after_key == SnapshotMasterKey(sess[ssl])
           r         == [th[t] EXCEPT !.nMk = @ + 1, !.pc = "ret"]
       IN  IF KeyChanged(th[t].before_key, after_key)
           THEN KeyLogFile_raw_dump(t, [r EXCEPT !.nCr = @ + 1],
                                    SnapshotClientRandom(sess[ssl]), after_key)
           ELSE /\ th' = [th EXCEPT ![t] = r]
                /\ UNCHANGED << file, staleWrites >>
    /\ UNCHANGED << world, proc, once, initPos, initBy, table, KeyLogFile_fd, SSLKEYLOGFILE,
                    fdOpen, fileCreated, atexitReg, atexitRun, nOpen, nClose,
                    keylog_cb, sess, calls >>

\* The intercepted operation returns th[t].ret to the application.
Return(t) ==
    /\ Alive
    /\ th[t].pc = "ret"
    /\ th' = [th EXCEPT ![t] = Idle]
    /\ UNCHANGED << world, proc, once, initPos, initBy, table, KeyLogFile_fd, SSLKEYLOGFILE,
                    fdOpen, fileCreated, file, atexitReg, atexitRun, nOpen, nClose,
                    staleWrites, keylog_cb, sess, calls >>

\* ---------------------------------------------------------- process exit
\* The handlers registered by atexit and not yet run: each is
\* KeyLogFile_finalize.
AtExit ==
    /\ proc = "exiting"
    /\ atexitRun < atexitReg
    /\ KeyLogFile_finalize
    /\ atexitRun' = atexitRun + 1
    /\ UNCHANGED << world, proc, once, initPos, initBy, table, KeyLogFile_fd, SSLKEYLOGFILE,
                    fileCreated, file, atexitReg, nOpen, staleWrites, keylog_cb, sess,
                    th, calls >>

\* One of the threads, in no intercepted operation, calls exit() (or main
\* returns); the handlers run while the other threads keep running.
Exit ==
    /\ proc = "running"
    /\ \E t \in WorldThreads(world) : th[t].pc = "idle"
    /\ proc' = "exiting"
    /\ UNCHANGED << world, once, initPos, initBy, table, KeyLogFile_fd, SSLKEYLOGFILE,
                    fdOpen, fileCreated, file, atexitReg, atexitRun, nOpen, nClose,
                    staleWrites, keylog_cb, sess, th, calls >>

\* ------------------------------------------------------------------- spec
Next ==
    \/ \E t \in WorldThreads(world), ctx \in Sessions : Call_SSL_new(t, ctx)
    \/ \E t \in WorldThreads(world) : OnceWait(t)
    \/ \E t \in WorldThreads(world) : InitLoad(t)
    \/ \E t \in WorldThreads(world) : InitKeyLog(t)
    \/ \E t \in WorldThreads(world) : SSL_new_register(t)
    \/ \E t \in WorldThreads(world) : SSL_new_real(t)
    \/ \E t \in WorldThreads(world), o \in HandshakeOps : Call_Handshake(t, o, t)
    \/ \E t \in WorldThreads(world) : HsBefore(t)
    \/ \E t \in WorldThreads(world) : HsReal(t)
    \/ \E t \in WorldThreads(world) : KeyLogFile_callback(t)
    \/ \E t \in WorldThreads(world) : KeyLogFile_callback_nl(t)
    \/ \E t \in WorldThreads(world) : logging_key(t)
    \/ \E t \in WorldThreads(world) : Return(t)
    \/ Exit
    \/ AtExit

Spec == Init /\ [][Next]_vars

\* ================================================================ properties
\* The master key the library holds for the SSL object thread t is using, as
\* a snapshot taken now.
KeyNow(t) == SnapshotMasterKey(sess[th[t].arg])
RandNow(t) == SnapshotClientRandom(sess[th[t].arg])

\* changed(before, after) of the specification: after is available and some
\* byte among its first after.length bytes differs from before's.
RefChanged(before, after) ==
    after.length > 0 /\ \E i \in 1..after.length : after.value[i] # before.value[i]

\* Thread t is about to return from a handshake operation that took the hook
\* path in HookMode and whose real call returned 1.
HookCallDone(t) ==
    /\ th[t].pc = "ret"
    /\ th[t].op \in HandshakeOps
    /\ th[t].path = "hook"
    /\ th[t].realRet = 1
    /\ table[Optional] = NULL

\* C1 as stated: in HookMode, a handshake call whose real call returned 1
\* has produced exactly one log line if the master key differs from the
\* snapshot taken before the call, and none if it is unchanged.
C1_OneLineIfKeyDiffers ==
    \A t \in Threads :
        HookCallDone(t) =>
            th[t].appended = IF KeyNow(t) # th[t].before_key THEN 1 ELSE 0

\* C1 as amended: in HookMode, a handshake call whose real call returned 1
\* issues exactly one write of a line if changed(before, after) holds and the
\* client random is available, and no write otherwise (in particular when the
\* master key is unchanged); the line is produced exactly when that one write
\* succeeds, which needs the log descriptor to be open.
C1_OneLineIfChangedAndWritten ==
    \A t \in Threads :
        HookCallDone(t) =>
            LET wants == RefChanged(th[t].before_key, KeyNow(t)) /\ RandNow(t).length > 0
            IN  /\ th[t].nWrite = IF wants THEN 1 ELSE 0
                /\ th[t].appended = IF wants /\ th[t].written > 0 THEN 1 ELSE 0
                /\ th[t].appended = 1 => fdOpen \/ proc = "exiting"
                /\ ~wants => th[t].written = 0

\* C1's case: a HookMode handshake has written its one line.
C1_Witness ==
    \E t \in Threads :
        /\ HookCallDone(t)
        /\ th[t].appended = 1
        /\ Len(file) >= 1

\* C2: an intercepted operation that returns has called its real entry point
\* exactly once, with the caller's argument, and returns the value that call
\* returned; no operation calls the real entry point more than once.
C2_PassThrough ==
    \A t \in Threads :
        /\ th[t].realCalls <= 1
        /\ th[t].pc = "ret" =>
              /\ th[t].realCalls = 1
              /\ th[t].realArg = th[t].arg
              /\ th[t].ret = th[t].realRet

\* C2's case: a handshake whose log write failed on the open descriptor
\* returns the real call's 1.
C2_Witness ==
    \E t \in Threads :
        /\ th[t].pc = "ret"
        /\ th[t].op \in HandshakeOps
        /\ KeyLogFile_fd = LogFd
        /\ th[t].nWrite = 1
        /\ th[t].written = -1
        /\ th[t].ret = 1

\* A chunk that is a line without its terminator.
Unterminated(chunk) == chunk.data[Len(chunk.data)] # "\n"

\* C3: no line's bytes are split by bytes of another line: in the file, what
\* follows an unterminated piece of a line was written by the same thread.
C3_NoLineSplit ==
    \A i \in 1..(Len(file) - 1) :
        Unterminated(file[i]) => file[i + 1].by = file[i].by

\* C4: init_openssl_hooks is entered at most once, by one thread, and a
\* thread is past call_once in SSL_new only when initialization is complete:
\* the flag is done, no thread is inside the function, the mandatory entry
\* points are resolved and KeyLogFile_init has run.
PastGate(t) == th[t].op = "SSL_new" /\ th[t].pc \in {"new_reg", "new_real", "ret"}
InitComplete ==
    /\ once = "done"
    /\ initPos = 0
    /\ \A t \in Threads : th[t].pc # "init"
    /\ \A m \in Mandatory : table[m] # NULL
    /\ nOpen = IF SSLKEYLOGFILE = "unset" THEN 0 ELSE 1
    /\ KeyLogFile_fd = IF SSLKEYLOGFILE = "ok" THEN LogFd ELSE -1
C4_InitOnceBeforeUse ==
    /\ Len(initBy) <= 1
    /\ once # "ONCE_FLAG_INIT" => Len(initBy) = 1
    /\ \A t \in Threads : PastGate(t) => InitComplete

\* C4's case: a thread that did not run the initialization is past the gate
\* together with the thread that did.
C4_Witness ==
    \E t, u \in Threads :
        /\ t # u
        /\ initBy = << t >>
        /\ PastGate(t)
        /\ th[u].op = "SSL_new"
        /\ th[u].pc = "new_reg"
        /\ calls = 2

\* C5: a handshake operation calls through the table only when the mandatory
\* entries are resolved.
C5_TableResolvedWhenUsed ==
    \A t \in Threads :
        (th[t].op \in HandshakeOps /\ th[t].pc \in {"before", "real"}) =>
            \A m \in Mandatory : table[m] # NULL

\* C6: with SSLKEYLOGFILE unset no file is created, nothing is opened, the
\* descriptor stays -1 and no write lands, whatever is called.
C6_UnsetNeverWrites ==
    SSLKEYLOGFILE = "unset" =>
        /\ ~fileCreated
        /\ nOpen = 0
        /\ KeyLogFile_fd = -1
        /\ file = << >>
        /\ \A t \in Threads : th[t].appended = 0

\* C6's case: with SSLKEYLOGFILE unset, a handshake whose key changed has
\* asked for its line to be written.
C6_Witness ==
    /\ SSLKEYLOGFILE = "unset"
    /\ \E t \in Threads : th[t].pc = "ret" /\ th[t].nWrite = 1 /\ th[t].nCr = 1

\* C7, the branch: a call of SSL_connect or SSL_do_handshake made while
\* _SSL_CTX_set_keylog_callback is resolved goes straight to the real call.
C7_Branch(t) ==
    (/\ th[t].pc = "idle"
     /\ th'[t].pc # "idle"
     /\ th'[t].op \in {"SSL_connect", "SSL_do_handshake"}
     /\ table[Optional] # NULL)
    => (th'[t].path = "direct" /\ th'[t].pc = "real")

\* C7, the paths: a call on the direct path takes no snapshot, reads no
\* client random and does not run KeyLogFile_raw_dump; SSL_accept is on the
\* hook path whatever the capture mode, and has taken its before-snapshot
\* when it gets to the real call.
C7_Paths(t) ==
    /\ th[t].path = "direct" =>
          /\ th[t].op \in {"SSL_connect", "SSL_do_handshake"}
          /\ th[t].nMk = 0
          /\ th[t].nCr = 0
          /\ th[t].written = 0
          /\ th[t].before_key = SslMasterKeyZero
          /\ th[t].pc \notin {"before", "logging_key"}
    /\ (th[t].op = "SSL_accept" /\ th[t].pc # "idle") =>
          /\ th[t].path = "hook"
          /\ th[t].pc \in {"real", "callback", "callback_nl"} => th[t].nMk = 1
          /\ (th[t].pc = "ret" /\ th[t].realRet = 1) => th[t].nMk = 2

\* C7: in CallbackMode SSL_connect and SSL_do_handshake delegate directly to
\* the real call and never run the snapshot/diff path; only SSL_accept runs
\* it, in either capture mode.
C7_DirectInCallbackMode ==
    /\ [](\A t \in Threads : C7_Paths(t))
    /\ [][\A t \in Threads : C7_Branch(t)]_vars

\* C7's case: in CallbackMode, an SSL_connect has returned on the direct path
\* after the library logged its secret through the callback, and an
\* SSL_accept has run the snapshot/diff path.
C7_Witness ==
    /\ table[Optional] # NULL
    /\ \E t \in Threads :
         /\ th[t].op = "SSL_connect"
         /\ th[t].pc = "ret"
         /\ th[t].path = "direct"
         /\ th[t].nWrite = 2
    /\ \E u \in Threads :
         /\ th[u].op = "SSL_accept"
         /\ th[u].pc = "logging_key"

\* The value of a lowercase hex digit; 16 for any other character.
LowerHex == << "0", "1", "2", "3", "4", "5", "6", "7",
               "8", "9", "a", "b", "c", "d", "e", "f" >>
DigitVal(ch) ==
    IF \E v \in 1..16 : LowerHex[v] = ch
    THEN (CHOOSE v \in 1..16 : LowerHex[v] = ch) - 1
    ELSE 16

\* field is hex(bytes): two lowercase digits per byte, no separators.
IsHexOf(field, bytes) ==
    /\ Len(field) = 2 * Len(bytes)
    /\ \A i \in 1..Len(bytes) :
          /\ DigitVal(field[2 * i - 1]) < 16
          /\ DigitVal(field[2 * i]) < 16
          /\ 16 * DigitVal(field[2 * i - 1]) + DigitVal(field[2 * i]) = bytes[i]

\* data is "CLIENT_RANDOM " + hex(c) + " " + hex(m) + "\n".
IsKeyLogLine(data, c, m) ==
    /\ Len(c) = 32
    /\ Len(m) \in 1..48
    /\ Len(data) = 14 + 64 + 1 + 2 * Len(m) + 1
    /\ SubSeq(data, 1, 14) =
          << "C", "L", "I", "E", "N", "T", "_", "R", "A", "N", "D", "O", "M", " " >>
    /\ IsHexOf(SubSeq(data, 15, 78), c)
    /\ data[79] = " "
    /\ IsHexOf(SubSeq(data, 80, 79 + 2 * Len(m)), m)
    /\ data[Len(data)] = "\n"

\* C8, the step: what logging_key of thread t appends to the file is the
\* line of the client random and master key of t's SSL object.
C8_Step(t) ==
    (th[t].pc = "logging_key" /\ th'[t].pc = "ret" /\ file' # file) =>
        /\ Len(file') = Len(file) + 1
        /\ SubSeq(file', 1, Len(file)) = file
        /\ file'[Len(file')].by = t
        /\ file'[Len(file')].via = "raw_dump"
        /\ IsKeyLogLine(file'[Len(file')].data,
                        sess[th[t].arg].client_random, sess[th[t].arg].master_key)
        /\ th'[t].written = Len(file'[Len(file')].data)

\* C8: every line of the hook path is "CLIENT_RANDOM " + hex(c) + " " +
\* hex(m) + "\n" for the client random c and master key m it logs, hex being
\* lowercase, two characters per byte: 64 characters for c, twice the number
\* of bytes of m (at most 96) for m.
C8_LineFormat ==
    /\ [](\A i \in 1..Len(file) :
            file[i].via = "raw_dump" =>
                /\ Len(file[i].data) \in {80 + 2 * n : n \in 1..48}
                /\ file[i].data[1] = "C"
                /\ file[i].data[79] = " "
                /\ file[i].data[Len(file[i].data)] = "\n")
    /\ [][\A t \in Threads : C8_Step(t)]_vars

\* C8's case: the hook path has written the line of a 32-byte master key,
\* whose second field has 64 characters.
C8_Witness ==
    \E i \in 1..Len(file) :
        /\ file[i].via = "raw_dump"
        /\ Len(file[i].data) = 144
        /\ IsKeyLogLine(file[i].data, R32, K32)

\* C9: SSL_new gets to its test of _SSL_CTX_set_keylog_callback only through
\* call_once, with initialization done; when the entry is resolved it has
\* registered KeyLogFile_callback on its context, once, before it calls the
\* real SSL_new, on every call; when the entry is NULL it registers nothing.
C9_RegisterBeforeDelegate ==
    /\ \A t \in Threads :
          th[t].op = "SSL_new" =>
             /\ th[t].pc \in {"call_once", "init", "new_reg"} =>
                   th[t].realCalls = 0 /\ th[t].nReg = 0
             /\ th[t].pc = "new_reg" => once = "done"
             /\ th[t].pc \in {"new_real", "ret"} =>
                   /\ th[t].nReg = IF table[Optional] # NULL THEN 1 ELSE 0
                   /\ table[Optional] # NULL => keylog_cb[th[t].arg]
             /\ th[t].pc = "new_real" => th[t].realCalls = 0
    /\ table[Optional] = NULL => \A c \in Sessions : ~keylog_cb[c]

\* C9's case: an SSL_new that is not the first has registered the callback,
\* on a context other than that of an earlier one, and has not yet called
\* the real SSL_new.
C9_Witness ==
    \E t \in Threads :
        /\ th[t].op = "SSL_new"
        /\ th[t].pc = "new_real"
        /\ th[t].nReg = 1
        /\ initBy # << t >>
        /\ \E c \in Sessions : c # th[t].arg /\ keylog_cb[c]

\* C10: a handshake operation on the hook path whose real call returned a
\* value other than 1 takes no after-snapshot, does not read the client
\* random, does not run KeyLogFile_raw_dump and returns that value; in
\* HookMode nothing at all is written during the call.
C10_FailureSkipsLogging ==
    \A t \in Threads :
        (/\ th[t].op \in HandshakeOps
         /\ th[t].path = "hook"
         /\ th[t].realCalls = 1
         /\ th[t].realRet # 1
         /\ th[t].pc \notin {"callback", "callback_nl"}) =>
            /\ th[t].pc = "ret"
            /\ th[t].nMk = 1
            /\ th[t].nCr = 0
            /\ th[t].written = 0
            /\ th[t].ret = th[t].realRet
            /\ table[Optional] = NULL => (th[t].nWrite = 0 /\ th[t].appended = 0)

\* C10's case: the real call failed with -1 and left a master key other
\* than the one snapshotted before it.
C10_Witness ==
    \E t \in Threads :
        /\ th[t].op \in HandshakeOps
        /\ th[t].path = "hook"
        /\ th[t].pc = "ret"
        /\ th[t].realRet = -1
        /\ KeyChanged(th[t].before_key, KeyNow(t))
        /\ RandNow(t).length > 0
        /\ KeyLogFile_fd = LogFd

\* C11: the process ends inside init_openssl_hooks only by abort(), and only
\* on a mandatory entry point that was not located; the load of the optional
\* entry point never ends the process.  (Runs in which no handshake
\* operation has been called, so that nothing but the loads can end it.)
C11_AbortIffMandatoryMissing ==
    (/\ ~Alive
     /\ initPos \in 1..Len(InitOrder)
     /\ \A t \in Threads : th[t].op \notin HandshakeOps) =>
        /\ proc = "aborted"
        /\ InitOrder[initPos] \in Mandatory

\* C12: open() is called at most once in a run, inside the one-time
\* initialization, also when it failed; close() is called at most once, only
\* by exit() and only on the descriptor that was opened; and when exit() has
\* run its handlers the opened descriptor has been closed exactly once.
C12_OpenOnceCloseOnce ==
    /\ nOpen <= 1
    /\ nClose <= 1
    /\ atexitReg <= 1
    /\ nOpen = 1 => (once = "done" /\ Len(initBy) = 1 /\ SSLKEYLOGFILE # "unset")
    /\ nClose = 1 => (proc # "running" /\ KeyLogFile_fd = LogFd /\ nOpen = 1 /\ ~fdOpen)
    /\ (proc = "exiting" /\ atexitRun = atexitReg) =>
          /\ nClose = IF KeyLogFile_fd = LogFd THEN 1 ELSE 0
          /\ ~fdOpen

\* C12's case: the file was opened, a line was written, and exit() has
\* closed the descriptor.
C12_Witness ==
    /\ proc = "exiting"
    /\ atexitRun = atexitReg
    /\ nOpen = 1
    /\ nClose = 1
    /\ file # << >>

\* ------------------------------------------------ the writer's functions
\* KeyLogFile_init and KeyLogFile_finalize run on their own, any number of
\* times (at most MaxRuns) in any order, from each state the writer can be
\* in: never initialized, open, and closed by KeyLogFile_finalize.  Thread 1
\* runs them; th[1].op is the function it ran last, calls the number of runs,
\* atexitRun the number of runs of KeyLogFile_finalize.
MaxRuns == 5

InitWriter ==
    /\ world = "single"
    /\ proc = "running"
    /\ once = "ONCE_FLAG_INIT"
    /\ initPos = 0
    /\ initBy = << >>
    /\ table = [s \in Symbols |-> NULL]
    /\ SSLKEYLOGFILE \in {"unset", "unwritable", "ok"}
    /\ \/ KeyLogFile_fd = -1 /\ fdOpen = FALSE /\ fileCreated = FALSE
       \/ /\ SSLKEYLOGFILE = "ok"
          /\ KeyLogFile_fd = LogFd
          /\ fdOpen \in BOOLEAN
          /\ fileCreated = TRUE
    /\ file = << >>
    /\ atexitReg = 0
    /\ atexitRun = 0
    /\ nOpen = 0
    /\ nClose = 0
    /\ staleWrites = 0
    /\ keylog_cb = [c \in Sessions |-> FALSE]
    /\ sess = [s \in Sessions |-> [master_key |-> << >>, client_random |-> << >>]]
    /\ th = [t \in Threads |-> Idle]
    /\ calls = 0

Run_KeyLogFile_init ==
    /\ calls < MaxRuns
    /\ KeyLogFile_init
    /\ calls' = calls + 1
    /\ th' = [th EXCEPT ![1].op = "KeyLogFile_init"]
    /\ UNCHANGED << world, proc, once, initPos, initBy, table, SSLKEYLOGFILE, file,
                    atexitRun, nClose, staleWrites, keylog_cb, sess >>

Run_KeyLogFile_finalize ==
    /\ calls < MaxRuns
    /\ KeyLogFile_finalize
    /\ calls' = calls + 1
    /\ atexitRun' = atexitRun + 1
    /\ th' = [th EXCEPT ![1].op = "KeyLogFile_finalize"]
    /\ UNCHANGED << world, proc, once, initPos, initBy, table, KeyLogFile_fd,
                    SSLKEYLOGFILE, fileCreated, file, atexitReg, nOpen, staleWrites,
                    keylog_cb, sess >>

NextWriter ==
    \/ Run_KeyLogFile_init
    \/ Run_KeyLogFile_finalize

SpecWriter == InitWriter /\ [][NextWriter]_vars

\* C13: a run of KeyLogFile_init that follows a run of KeyLogFile_init
\* changes nothing and has no effect (no open, no atexit registration), and a
\* run of KeyLogFile_finalize that follows a run of KeyLogFile_finalize
\* closes nothing.
C13_Idempotent ==
    [][/\ (th[1].op = "KeyLogFile_init" /\ th'[1].op = "KeyLogFile_init") =>
              UNCHANGED << KeyLogFile_fd, fdOpen, fileCreated, atexitReg, nOpen, nClose >>
       /\ (th[1].op = "KeyLogFile_finalize" /\ th'[1].op = "KeyLogFile_finalize") =>
              UNCHANGED << KeyLogFile_fd, fdOpen, fileCreated, atexitReg, nOpen, nClose >>
      ]_vars

\* C14: once the one-time initialization has completed, no step of any
\* thread changes the table of resolved entry points, and so none changes
\* the capture mode (whether _SSL_CTX_set_keylog_callback is resolved); the
\* initialization stays completed.
C14_TableFrozenAfterInit ==
    [][once = "done" =>
          /\ table' = table
          /\ (table'[Optional] # NULL) = (table[Optional] # NULL)
          /\ once' = "done"]_vars

\* C14's case: after the initialization an SSL_new has registered the
\* callback, a handshake has written a line, and KeyLogFile_finalize has run.
C14_Witness ==
    /\ once = "done"
    /\ \A m \in Mandatory : table[m] # NULL
    /\ \E c \in Sessions : keylog_cb[c]
    /\ \E i \in 1..Len(file) : file[i].via = "callback"
    /\ atexitRun = 1
    /\ nClose = 1

\* --------------------------------------------- logging_key on its own
\* logging_key run on its own, for thread 1 inside an SSL_accept whose real
\* call has returned 1, on every pair of a before-snapshot and a master key
\* drawn from KeyInputs, every client random of RandInputs, and the log
\* descriptor unset or open.
K47 == [i \in 1..47 |-> 159 + i]
K48x == [i \in 1..48 |-> IF i = 48 THEN 0 ELSE 159 + i]
KeyInputs == {<< >>, << 0 >>, << 7 >>, << 7, 0 >>, << 7, 9 >>, K32, K47, K48, K48x, KZero}
RandInputs == {<< >>, << 5 >>, [i \in 1..16 |-> i - 1], R32}

InitLogging ==
    /\ world = "single"
    /\ proc = "running"
    /\ once = "done"
    /\ initPos = 0
    /\ initBy = << 1 >>
    /\ table = [s \in Symbols |-> IF s = Optional THEN NULL ELSE 1]
    /\ \/ /\ SSLKEYLOGFILE = "unset"
          /\ KeyLogFile_fd = -1 /\ fdOpen = FALSE /\ fileCreated = FALSE
          /\ atexitReg = 0 /\ nOpen = 0
       \/ /\ SSLKEYLOGFILE = "ok"
          /\ KeyLogFile_fd = LogFd /\ fdOpen = TRUE /\ fileCreated = TRUE
          /\ atexitReg = 1 /\ nOpen = 1
    /\ file = << >>
    /\ atexitRun = 0
    /\ nClose = 0
    /\ staleWrites = 0
    /\ keylog_cb = [c \in Sessions |-> FALSE]
    /\ \E k \in KeyInputs, c \in RandInputs :
          sess = [s \in Sessions |->
                    IF s = 1 THEN [master_key |-> k, client_random |-> c]
                    ELSE [master_key |-> << >>, client_random |-> << >>]]
    /\ \E b \in KeyInputs :
          th = [t \in Threads |->
                  IF t = 1
                  THEN [Idle EXCEPT !.pc = "logging_key", !.op = "SSL_accept", !.arg = 1,
                                    !.path = "hook",
                                    !.before_key = SnapshotMasterKey([master_key |-> b]),
                                    !.ret = 1, !.realCalls = 1, !.realArg = 1,
                                    !.realRet = 1, !.nMk = 1]
                  ELSE Idle]
    /\ calls = 1

NextLogging ==
    \/ logging_key(1)
    \/ Return(1)

SpecLogging == InitLogging /\ [][NextLogging]_vars

\* Thread 1 is about to run logging_key / has run it.
AtLoggingKey == th[1].pc = "logging_key"
PastLoggingKey == th[1].pc = "ret"

\* C15: the test of logging_key is changed(before, after): after.length > 0
\* and some byte among the first after.length bytes of after differs from
\* before's, for snapshots of lengths 0, 1, 2, 32, 47 and 48, equal or not in
\* length; logging_key goes on to read the client random exactly when it is
\* true.
C15_DedupIsChanged ==
    /\ AtLoggingKey =>
          (KeyChanged(th[1].before_key, KeyNow(1))
              <=> RefChanged(th[1].before_key, KeyNow(1)))
    /\ PastLoggingKey =>
          th[1].nCr = IF RefChanged(th[1].before_key, KeyNow(1)) THEN 1 ELSE 0

\* C15's case: logging_key has found unchanged a master key whose length
\* differs from that of the snapshot taken before, the bytes compared being
\* the same.
C15_Witness ==
    /\ PastLoggingKey
    /\ th[1].nCr = 0
    /\ KeyNow(1).length > 0
    /\ th[1].before_key.length > 0
    /\ KeyNow(1).length # th[1].before_key.length

\* C16: for a client random of 1..32 bytes and a master key of 1..48 bytes,
\* every byte KeyLogFile_raw_dump stores while formatting (the prefix, the
\* hex pairs with the NUL sprintf appends, the separator, the newline) lies
\* inside line[CLIENT_RANDOM_LINE_LENGTH], and the length handed to write is
\* 14 + 2 * len(client_random) + 1 + 2 * len(master_key) + 1: the whole line.
C16_LineFitsBuffer ==
    (AtLoggingKey \/ PastLoggingKey) =>
    LET cr  == RandNow(1)
        mk  == KeyNow(1)
        len == 14 + 2 * cr.length + 1 + 2 * mk.length + 1
    IN  (cr.length \in 1..32 /\ mk.length \in 1..48) =>
           /\ AtLoggingKey =>
                 /\ Len(FormatLine(cr, mk).buf) = CLIENT_RANDOM_LINE_LENGTH
                 /\ FormatLine(cr, mk).hi <= CLIENT_RANDOM_LINE_LENGTH
                 /\ FormatLine(cr, mk).p = len
                 /\ Len(RawDumpBytes(cr, mk)) = len
                 /\ \A i \in 1..len : RawDumpBytes(cr, mk)[i] # NUL
           /\ (PastLoggingKey /\ th[1].nWrite = 1) =>
                 /\ th[1].written \in {len, -1}
                 /\ th[1].appended = 1 => th[1].written = len
                 /\ \A i \in 1..Len(file) : Len(file[i].data) = len

\* C16's case: the longest line, of a 32-byte client random and a 48-byte
\* master key, has been written: 176 bytes.
C16_Witness ==
    /\ PastLoggingKey
    /\ RandNow(1).length = 32
    /\ KeyNow(1).length = 48
    /\ th[1].written = 176
    /\ Len(file) = 1

\* C17: a handshake call that returned 1 has not written the record of one
\* secret twice: the file does not hold both a line written through
\* KeyLogFile_callback and a line written by KeyLogFile_raw_dump during the
\* call that are the same record.
C17_NoDuplicateRecord ==
    \A t \in Threads :
        (/\ th[t].pc = "ret"
         /\ th[t].op \in HandshakeOps
         /\ th[t].realRet = 1
         /\ th[t].nWrite = 3
         /\ th[t].appended = 3) =>
            ~ \E i, j \in 1..Len(file) :
                  /\ file[i].by = t
                  /\ file[i].via = "callback"
                  /\ file[j].by = t
                  /\ file[j].via = "raw_dump"
                  /\ file[j].data = file[i].data \o << "\n" >>

\* C18: no write call is issued on the log descriptor once
\* KeyLogFile_finalize has closed it.
C18_NoWriteAfterClose == staleWrites = 0

\* C19: logging_key reads the client random only when it has found the
\* master key changed, after the second read of the master key;
\* KeyLogFile_raw_dump, which it then runs, issues one write when the client
\* random and the master key both have a non-zero length and none otherwise;
\* with no client random nothing is written, not even part of a line.
C19_WriteOnlyWholeRecord ==
    PastLoggingKey =>
        LET cr      == RandNow(1)
            mk      == KeyNow(1)
            changed == RefChanged(th[1].before_key, mk)
        IN  /\ th[1].nMk = 2
            /\ th[1].nCr = IF changed THEN 1 ELSE 0
            /\ th[1].nWrite =
                  IF th[1].nCr = 1 /\ cr.length # 0 /\ mk.length # 0 THEN 1 ELSE 0
            /\ th[1].nWrite = 0 => (th[1].written = 0 /\ file = << >>)
            /\ cr.length = 0 =>
                  (th[1].nWrite = 0 /\ th[1].appended = 0 /\ file = << >>)
            /\ \A i \in 1..Len(file) :
                  /\ file[i].via = "raw_dump"
                  /\ Len(file[i].data) = 14 + 2 * cr.length + 1 + 2 * mk.length + 1
                  /\ file[i].data[Len(file[i].data)] = "\n"

\* C19's case: the master key changed, the client random was read and has
\* length 0, and nothing was written although the descriptor is open.
C19_Witness ==
    /\ PastLoggingKey
    /\ th[1].nCr = 1
    /\ RandNow(1).length = 0
    /\ KeyNow(1).length > 0
    /\ KeyLogFile_fd = LogFd
    /\ fdOpen
    /\ th[1].nWrite = 0
    /\ file = << >>

=============================================================================
